---- MODULE Spec2Model ----
(***************************************************************************)
(* Model of ocrpdfmpn.py: GetPDFResponse / GetPDFText (fetch and digital   *)
(* extraction), ocr_text_from_pdf (OCR fallback) and PN_Validation_New     *)
(* with its per-row worker SET_DESC (exact / fuzzy classification).        *)
(*                                                                         *)
(* Text is a sequence of one-character strings.  An optional cell of the   *)
(* table (EQUIVALENT, SIMILARS) is None == <<>> or Some(x) == <<x>>; an    *)
(* unset STATUS is the string "None".                                      *)
(***************************************************************************)
EXTENDS Integers, Sequences, FiniteSets, TLC

(***************************************************************************)
(* Bounds of the model.                                                    *)
(***************************************************************************)
MaxRows == 2
MaxTextLen == 3
MaxPartLen == 2
MaxWorkers == 2

(***************************************************************************)
(* Program constants.                                                      *)
(***************************************************************************)
OcrThreshold == 100
ChunkSize == 100
CutoffNum == 65
CutoffDen == 100

(***************************************************************************)
(* Characters.                                                             *)
(***************************************************************************)
CodePoint(c) ==
    CASE c = "\n" -> 10
      [] c = " "  -> 32
      [] c = "-"  -> 45
      [] c = "1"  -> 49
      [] c = "A"  -> 65
      [] c = "B"  -> 66
      [] c = "a"  -> 97
      [] c = "b"  -> 98
      [] c = "z"  -> 122

\* re.IGNORECASE compares characters by their lower-case form.
Lower(c) ==
    CASE c = "A" -> "a"
      [] c = "B" -> "b"
      [] OTHER   -> c

\* \w of the re module: letters, digits and underscore.
IsWord(c) == c \in {"1", "A", "B", "a", "b", "z"}

\* the characters str.strip() removes.
IsSpace(c) == c \in {" ", "\n"}

\* values[i:j] of Python, 1-based and inclusive here: the characters lo..hi.
Slice(s, lo, hi) == IF hi < lo THEN << >> ELSE SubSeq(s, lo, hi)

None == << >>

\* the mapping f with key k set to v.
Put(f, k, v) == [x \in DOMAIN f \cup {k} |-> IF x = k THEN v ELSE f[x]]
Some(x) == << x >>

(***************************************************************************)
(* re.search(re.escape(part), values, flags=re.IGNORECASE)                 *)
(***************************************************************************)
\* the escaped pattern matches at position i of values, ignoring case.
MatchAt(part, values, i) ==
    /\ i >= 1
    /\ i + Len(part) - 1 <= Len(values)
    /\ \A k \in 1..Len(part) : Lower(values[i + k - 1]) = Lower(part[k])

\* the least element of a non-empty set of integers.
Least(S) == CHOOSE x \in S : \A y \in S : x <= y

\* the greatest element of a non-empty set of integers.
Greatest(S) == CHOOSE x \in S : \A y \in S : y <= x

\* the scan of re.search: the first position >= i where the pattern matches,
\* 0 when there is none.
SearchFrom(part, values, i) ==
    LET hits == { p \in i..(Len(values) + 1) : MatchAt(part, values, p) }
    IN  IF hits = {} THEN 0 ELSE Least(hits)

\* Group0 returning the identifier instead of the matched characters.
Group0_Identifier(part, values, i) == part

\* exact.group(0): the characters of values the match covers.
Group0(part, values, i) == Slice(values, i, i + Len(part) - 1)

(***************************************************************************)
(* re.findall(r'\b\w*' + re.escape(part) + r'\w*\b', values, IGNORECASE)   *)
(***************************************************************************)
\* \b at the gap before position p (1..Len+1).
IsBoundary(values, p) ==
    LET before == p > 1 /\ IsWord(values[p - 1])
        after  == p <= Len(values) /\ IsWord(values[p])
    IN  before # after

\* the number of word characters starting at position p.
WordRun(values, p) ==
    Greatest({ r \in 0..(Len(values) + 1 - p) :
                 \A k \in 0..(r - 1) : IsWord(values[p + k]) })

\* the trailing \w*\b after the literal ended before position e: the greedy
\* \w* takes r characters and backs off until \b holds; the position after
\* the match, 0 when no length works.
TailEnd(values, e, r) ==
    LET ok == { q \in 0..r : IsBoundary(values, e + q) }
    IN  IF ok = {} THEN 0 ELSE e + Greatest(ok)

\* the leading \w* at position i: it takes k characters and backs off until
\* the literal and the tail match; the position after the match, 0 if none.
HeadTry(part, values, i, k) ==
    LET end(h) == IF MatchAt(part, values, i + h)
                  THEN TailEnd(values, i + h + Len(part),
                               WordRun(values, i + h + Len(part)))
                  ELSE 0
        ok == { h \in 0..k : end(h) # 0 }
    IN  IF ok = {} THEN 0 ELSE end(Greatest(ok))

\* the pattern matched at position i: the position after the match, or 0.
SemiMatchEnd(part, values, i) ==
    IF ~IsBoundary(values, i) THEN 0
    ELSE HeadTry(part, values, i, WordRun(values, i))

RECURSIVE FindAll(_, _, _)
\* the non-overlapping matches, scanning from position pos: the scan moves
\* to the first position where the pattern matches and goes on after it.
FindAll(part, values, pos) ==
    LET starts == { q \in pos..(Len(values) + 1) : SemiMatchEnd(part, values, q) # 0 }
    IN  IF starts = {} THEN << >>
        ELSE LET q == Least(starts)
                 e == SemiMatchEnd(part, values, q)
             IN  IF e = q THEN << << >> >> \o FindAll(part, values, q + 1)
                 ELSE << Slice(values, q, e - 1) >> \o FindAll(part, values, e)

RECURSIVE LStrip(_)
LStrip(s) == IF s # << >> /\ IsSpace(Head(s)) THEN LStrip(Tail(s)) ELSE s

RECURSIVE RStrip(_)
RStrip(s) ==
    IF s # << >> /\ IsSpace(s[Len(s)]) THEN RStrip(Slice(s, 1, Len(s) - 1))
    ELSE s

\* str.strip()
Strip(s) == RStrip(LStrip(s))

\* semi_regex: the set of the stripped matches.
SemiRegex(part, values) ==
    LET found == FindAll(part, values, 1)
    IN  { Strip(found[k]) : k \in 1..Len(found) }

(***************************************************************************)
(* re.split('[ \n]', values)                                               *)
(***************************************************************************)
\* the positions of the separators, and the position of the k-th of them
\* (0 before the first, Len + 1 after the last).
Seps(values) == { p \in 1..Len(values) : values[p] \in {" ", "\n"} }

SepPos(values, k) ==
    IF k = 0 THEN 0
    ELSE IF k > Cardinality(Seps(values)) THEN Len(values) + 1
    ELSE CHOOSE p \in Seps(values) :
             Cardinality({ q \in Seps(values) : q < p }) = k - 1

\* the pieces between the separators, empty pieces included.
Split(values) ==
    [ k \in 1..(Cardinality(Seps(values)) + 1) |->
          Slice(values, SepPos(values, k - 1) + 1, SepPos(values, k) - 1) ]

(***************************************************************************)
(* difflib.SequenceMatcher(a = token, b = part): no junk, and autojunk     *)
(* acts only on sequences of 200 and more elements.                        *)
(***************************************************************************)
RECURSIVE CommonLen(_, _, _, _, _, _)
\* the length of the common run of a from i and b from j, inside the ranges.
CommonLen(a, b, i, ahi, j, bhi) ==
    IF i > ahi \/ j > bhi \/ a[i] # b[j] THEN 0
    ELSE 1 + CommonLen(a, b, i + 1, ahi, j + 1, bhi)

\* find_longest_match: <<i, j, k>> with k maximal, then i minimal, then j
\* minimal, over a[alo..ahi] and b[blo..bhi]; k = 0 when nothing matches.
FindLongestMatch(a, b, alo, ahi, blo, bhi) ==
    LET len(i, j) == CommonLen(a, b, i, ahi, j, bhi)
        cands == (alo..ahi) \X (blo..bhi)
        best(p) == \A q \in cands :
                      \/ len(q[1], q[2]) < len(p[1], p[2])
                      \/ /\ len(q[1], q[2]) = len(p[1], p[2])
                         /\ \/ p[1] < q[1]
                            \/ p[1] = q[1] /\ p[2] <= q[2]
    IN  IF cands = {} THEN << alo, blo, 0 >>
        ELSE LET p == CHOOSE p \in cands : best(p)
             IN  << p[1], p[2], len(p[1], p[2]) >>

RECURSIVE Matches(_, _, _, _, _, _)
\* get_matching_blocks: the total size of the matching blocks, the longest
\* block first and then the pieces to its left and to its right.
Matches(a, b, alo, ahi, blo, bhi) ==
    IF alo > ahi \/ blo > bhi THEN 0
    ELSE LET m == FindLongestMatch(a, b, alo, ahi, blo, bhi)
         IN  IF m[3] = 0 THEN 0
             ELSE m[3]
                  + Matches(a, b, alo, m[1] - 1, blo, m[2] - 1)
                  + Matches(a, b, m[1] + m[3], ahi, m[2] + m[3], bhi)

\* _calculate_ratio: 2.0 * matches / length as the fraction <<num, den>>,
\* and 1.0 when both sequences are empty.
CalculateRatio(matches, length) ==
    IF length # 0 THEN << 2 * matches, length >> ELSE << 1, 1 >>

\* SequenceMatcher.ratio()
Ratio(a, b) == CalculateRatio(Matches(a, b, 1, Len(a), 1, Len(b)), Len(a) + Len(b))

\* the number of positions of s holding c.
Count(s, c) == Cardinality({ k \in 1..Len(s) : s[k] = c })

Min(x, y) == IF x <= y THEN x ELSE y

RECURSIVE SumMin(_, _, _)
SumMin(a, b, cs) ==
    IF cs = {} THEN 0
    ELSE LET c == CHOOSE c \in cs : TRUE
         IN  Min(Count(a, c), Count(b, c)) + SumMin(a, b, cs \ {c})

\* SequenceMatcher.quick_ratio(): the multiset intersection of the elements.
QuickRatio(a, b) ==
    CalculateRatio(SumMin(a, b, { a[k] : k \in 1..Len(a) }), Len(a) + Len(b))

\* SequenceMatcher.real_quick_ratio()
RealQuickRatio(a, b) == CalculateRatio(Min(Len(a), Len(b)), Len(a) + Len(b))

\* r >= cutoff, for fractions with positive denominators.
RatioGE(r, num, den) == r[1] * den >= num * r[2]

RatioLess(r, s) == r[1] * s[2] < s[1] * r[2]

RatioEq(r, s) == r[1] * s[2] = s[1] * r[2]

RECURSIVE StrLess(_, _)
\* s < t of Python strings: lexicographic by code point.
StrLess(s, t) ==
    IF t = << >> THEN FALSE
    ELSE IF s = << >> THEN TRUE
    ELSE IF CodePoint(Head(s)) # CodePoint(Head(t))
         THEN CodePoint(Head(s)) < CodePoint(Head(t))
    ELSE StrLess(Tail(s), Tail(t))

\* ScoredLess comparing the scores only, so that the first of equal scores
\* stays the maximum.
ScoredLess_ScoreOnly(p, q) == RatioLess(p[1], q[1])

\* (score, x) < (score', x') of Python tuples.
ScoredLess(p, q) ==
    \/ RatioLess(p[1], q[1])
    \/ RatioEq(p[1], q[1]) /\ StrLess(p[2], q[2])

\* Passes with a cutoff of 0.5.
Passes_Half(word, x) ==
    /\ RatioGE(RealQuickRatio(x, word), 1, 2)
    /\ RatioGE(QuickRatio(x, word), 1, 2)
    /\ RatioGE(Ratio(x, word), 1, 2)

\* the three tests get_close_matches makes before it keeps a possibility.
Passes(word, x) ==
    /\ RatioGE(RealQuickRatio(x, word), CutoffNum, CutoffDen)
    /\ RatioGE(QuickRatio(x, word), CutoffNum, CutoffDen)
    /\ RatioGE(Ratio(x, word), CutoffNum, CutoffDen)

RECURSIVE Scored(_, _, _)
\* result: the (score, x) pairs of the possibilities that pass, in order.
Scored(word, possibilities, k) ==
    IF k > Len(possibilities) THEN << >>
    ELSE LET x == possibilities[k]
             rest == Scored(word, possibilities, k + 1)
         IN  IF Passes(word, x) THEN << << Ratio(x, word), x >> >> \o rest
             ELSE rest

RECURSIVE MaxOf(_, _, _)
\* max(result): the first element no later element exceeds.
MaxOf(result, k, best) ==
    IF k > Len(result) THEN best
    ELSE IF ScoredLess(best, result[k]) THEN MaxOf(result, k + 1, result[k])
    ELSE MaxOf(result, k + 1, best)

\* heapq.nlargest(1, result)
NLargest1(result) ==
    IF result = << >> THEN << >> ELSE << MaxOf(result, 2, result[1]) >>

\* difflib.get_close_matches(word, possibilities, n=1, cutoff=0.65)
GetCloseMatches(word, possibilities) ==
    LET top == NLargest1(Scored(word, possibilities, 1))
    IN  [ k \in 1..Len(top) |-> top[k][2] ]

(***************************************************************************)
(* Documents.  A document is what a location serves: whether fitz can open *)
(* it, and for each page its native text and the fragments the recognition *)
(* engine reads from its image.                                            *)
(***************************************************************************)
RECURSIVE JoinPages(_, _)
\* '\n'.join(page.get_text() for page in doc)
JoinPages(pages, k) ==
    IF k > Len(pages) THEN << >>
    ELSE IF k = Len(pages) THEN pages[k].text
    ELSE pages[k].text \o << "\n" >> \o JoinPages(pages, k + 1)

DigitalText(doc) == JoinPages(doc.pages, 1)

RECURSIVE JoinFrags(_, _)
\* ' '.join([result[1] for result in results])
JoinFrags(frags, k) ==
    IF k > Len(frags) THEN << >>
    ELSE IF k = Len(frags) THEN frags[k]
    ELSE frags[k] \o << " " >> \o JoinFrags(frags, k + 1)

RECURSIVE FullText(_, _)
\* full_text after the loop over the pages.
FullText(pages, k) ==
    IF k > Len(pages) THEN << >>
    ELSE JoinFrags(pages[k].frags, 1) \o << "\n" >> \o FullText(pages, k + 1)

\* what ocr_text_from_pdf returns when nothing fails.
OcrText(doc) == Strip(FullText(doc.pages, 1))

\* a response body that is no PDF (the body of an error response).
Garbage == [parse |-> FALSE, pages |-> << >>]

Page(text, frags) == [text |-> text, frags |-> frags]

OnePage(text, frags) == [parse |-> TRUE, pages |-> << Page(text, frags) >>]

Filler(n) == [ k \in 1..n |-> "z" ]

\* t, a newline and filler, n characters in all.
Pad(t, n) == t \o << "\n" >> \o Filler(n - Len(t) - 1)

Locs == {"u1", "u2", "u3"}

(***************************************************************************)
(* State.                                                                  *)
(***************************************************************************)
VARIABLES
    data,       \* the table: a sequence of rows MPN, PDF, STATUS, EQUIVALENT, SIMILARS
    web,        \* the document each location serves
    flaky,      \* the locations whose requests take time and can fail
    pc,         \* where main is
    chunkLo,    \* GetPDFText: index of the first entry of the current chunk
    fstate,     \* GetPDFText: the GetPDFResponse task of each entry, and how it ended
    parseIdx,   \* GetPDFText: the entry the loop over results is at
    pdfData,    \* the extraction map, location -> text
    tstate,     \* PN_Validation_New: where the SET_DESC task of each row is
    values,     \* SET_DESC: the local values of each task
    pdf_bytes,  \* SET_DESC: the local pdf_bytes of each task
    gets,       \* requests.get calls issued so far, per location
    extracts,   \* texts produced so far (digital or OCR), per location
    ocrRows,    \* the rows whose task took the OCR branch
    ocrFailed   \* the rows whose OCR step failed

vars == << data, web, flaky, pc, chunkLo, fstate, parseIdx, pdfData,
           tstate, values, pdf_bytes, gets, extracts, ocrRows, ocrFailed >>

Rows == 1..Len(data)

\* pdfs[i:i + 100]
ChunkHi == Min(chunkLo + ChunkSize - 1, Len(data))

Chunk == chunkLo..ChunkHi

Row(part, loc) ==
    [MPN |-> part, PDF |-> loc, STATUS |-> "None", EQUIVALENT |-> None, SIMILARS |-> None]

\* the workers of a ThreadPoolExecutor take the tasks in submission order,
\* at most max_workers at a time.
FetchRunning == { k \in Rows : fstate[k] = "running" }

TaskRunning == { i \in Rows : tstate[i] \in {"l80", "l50"} }

(***************************************************************************)
(* Inputs.                                                                 *)
(***************************************************************************)
\* the sequences over alphabet of length 0..n
RECURSIVE StrsUpTo(_, _)
StrsUpTo(alphabet, n) ==
    IF n = 0 THEN { << >> }
    ELSE LET shorter == StrsUpTo(alphabet, n - 1)
         IN  shorter \cup { Append(t, c) : t \in shorter, c \in alphabet }

\* the sequences of rows of length 1..n
RECURSIVE RowLists(_, _, _)
RowLists(parts, locs, n) ==
    IF n = 0 THEN { << >> }
    ELSE LET shorter == RowLists(parts, locs, n - 1)
         IN  shorter \cup { Append(rs, Row(p, l)) : rs \in shorter, p \in parts, l \in locs }

\* the identifiers and the documents of the runs with several rows: a long
\* digital text, a digital text of exactly OcrThreshold characters on two
\* pages whose scan reads differently, and a body that is no PDF
SampleParts == { << "A", "B" >>, << "B", "1" >> }

LongDoc == OnePage(Pad(<< "A", "B", "-", "1" >>, OcrThreshold + 1), << << "B" >> >>)

ShortDoc ==
    [parse |-> TRUE,
     pages |-> << Page(Pad(<< "a", "b" >>, OcrThreshold - 1),
                       << << "B" >>, << "1" >> >>),
                  Page(<< >>, << >>) >>]

SampleWeb ==
    [l \in Locs |-> CASE l = "u1" -> LongDoc
                      [] l = "u2" -> ShortDoc
                      [] OTHER    -> Garbage]

\* the identifiers and documents of the runs with one row: every text up to
\* MaxTextLen, as a long digital text and as the text read from a scan
TextAlphabet == { "A", "a", "B", " " }

PartAlphabet == { "A", "B" }

AllTexts == StrsUpTo(TextAlphabet, MaxTextLen)

AllParts == StrsUpTo(PartAlphabet, MaxPartLen) \ { << >> }

AllDocs ==
    { OnePage(Pad(t, OcrThreshold + 1), << >>) : t \in AllTexts }
    \cup { OnePage(<< >>, << t >>) : t \in AllTexts }
    \cup { Garbage }

InitWith(rows, w, f) ==
    /\ data = rows
    /\ web = w
    /\ flaky = f
    /\ pc = "chunks"
    /\ chunkLo = 1
    /\ fstate = [k \in 1..Len(rows) |-> "idle"]
    /\ parseIdx = 1
    /\ pdfData = << >>
    /\ tstate = [i \in 1..Len(rows) |-> "idle"]
    /\ values = << >>
    /\ pdf_bytes = << >>
    /\ gets = [l \in Locs |-> 0]
    /\ extracts = [l \in Locs |-> 0]
    /\ ocrRows = {}
    /\ ocrFailed = {}

\* a table of 1..MaxRows rows over the sample identifiers and locations
Init ==
    \E rows \in RowLists(SampleParts, Locs, MaxRows) \ { << >> } :
        InitWith(rows, SampleWeb, Locs)

\* a table of one row, over every identifier and every text of the bounds
InitMatch ==
    \E p \in AllParts : \E d \in AllDocs :
        InitWith(<< Row(p, "u1") >>,
                 [l \in Locs |-> IF l = "u1" THEN d ELSE Garbage], Locs)

\* a table of one row more than a chunk holds: rows on the location that
\* serves no PDF, then one row on each of the other locations at the end of
\* the first chunk and one row in the second chunk; only the requests of the
\* last three rows take time and can fail
BatchRows ==
    [k \in 1..(ChunkSize + 1) |->
        CASE k < ChunkSize - 1 -> Row(<< "A", "B" >>, "u3")
          [] k = ChunkSize - 1 -> Row(<< "A", "B" >>, "u2")
          [] k = ChunkSize     -> Row(<< "A", "B" >>, "u1")
          [] OTHER             -> Row(<< "B", "1" >>, "u2")]

InitBatch == InitWith(BatchRows, SampleWeb, {"u1", "u2"})

(***************************************************************************)
(* GetPDFText and GetPDFResponse                                           *)
(***************************************************************************)
\* the loop over chunks takes the next chunk and executor.map submits one
\* GetPDFResponse task for each of its entries.
GetPDFText_NextChunk ==
    /\ pc = "chunks"
    /\ chunkLo <= Len(data)
    /\ fstate' = [k \in Rows |-> IF k \in Chunk THEN "queued" ELSE fstate[k]]
    /\ pc' = "map"
    /\ UNCHANGED << data, web, flaky, chunkLo, parseIdx, pdfData, tstate, values,
                    pdf_bytes, gets, extracts, ocrRows, ocrFailed >>

\* a worker takes the oldest queued task and issues requests.get(pdf,
\* timeout=10); a location that is not flaky answers at once.
GetPDFResponse_Call(k) ==
    /\ pc = "map"
    /\ fstate[k] = "queued"
    /\ \A j \in Chunk : j < k => fstate[j] # "queued"
    /\ Cardinality(FetchRunning) < MaxWorkers
    /\ fstate' = [fstate EXCEPT ![k] =
                      IF data[k].PDF \in flaky THEN "running" ELSE "ok"]
    /\ gets' = [gets EXCEPT ![data[k].PDF] = @ + 1]
    /\ UNCHANGED << data, web, flaky, pc, chunkLo, parseIdx, pdfData,
                    tstate, values, pdf_bytes, extracts, ocrRows, ocrFailed >>

\* the response arrives with a success status: return pdf, BytesIO(content).
GetPDFResponse_Ok(k) ==
    /\ fstate[k] = "running"
    /\ fstate' = [fstate EXCEPT ![k] = "ok"]
    /\ UNCHANGED << data, web, flaky, pc, chunkLo, parseIdx, pdfData, tstate, values,
                    pdf_bytes, gets, extracts, ocrRows, ocrFailed >>

\* requests.get or raise_for_status raises: the except clause returns pdf, None.
GetPDFResponse_Error(k) ==
    /\ fstate[k] = "running"
    /\ data[k].PDF \in flaky
    /\ fstate' = [fstate EXCEPT ![k] = "error"]
    /\ UNCHANGED << data, web, flaky, pc, chunkLo, parseIdx, pdfData, tstate, values,
                    pdf_bytes, gets, extracts, ocrRows, ocrFailed >>

\* GetPDFText_Collect going on as soon as every task was taken by a worker.
GetPDFText_Collect_NoWait ==
    /\ pc = "map"
    /\ \A k \in Chunk : fstate[k] # "queued"
    /\ pc' = "parse"
    /\ parseIdx' = chunkLo
    /\ UNCHANGED << data, web, flaky, chunkLo, fstate, pdfData, tstate,
                    values, pdf_bytes, gets, extracts, ocrRows, ocrFailed >>

\* list(executor.map(...)) has every result and the with block has ended.
GetPDFText_Collect ==
    /\ pc = "map"
    /\ \A k \in Chunk : fstate[k] \in {"ok", "error"}
    /\ pc' = "parse"
    /\ parseIdx' = chunkLo
    /\ UNCHANGED << data, web, flaky, chunkLo, fstate, pdfData, tstate,
                    values, pdf_bytes, gets, extracts, ocrRows, ocrFailed >>

\* results: byt of entry k, the bytes the location served or None.
Result(k) == IF fstate[k] = "ok" THEN Some(web[data[k].PDF]) ELSE None

\* the loop over results moves on; after the last entry the next chunk is due.
ParseAdvance ==
    IF parseIdx = ChunkHi
    THEN /\ pc' = "chunks"
         /\ chunkLo' = chunkLo + ChunkSize
         /\ parseIdx' = parseIdx
    ELSE /\ pc' = pc
         /\ chunkLo' = chunkLo
         /\ parseIdx' = parseIdx + 1

\* byt is not None and fitz reads the document: pdfData[pdf] = the page texts.
GetPDFText_Read ==
    /\ pc = "parse"
    /\ Result(parseIdx) # None
    /\ Result(parseIdx)[1].parse
    /\ LET pdf == data[parseIdx].PDF
           text == DigitalText(Result(parseIdx)[1])
       IN  /\ pdfData' = Put(pdfData, pdf, text)
           /\ extracts' = [extracts EXCEPT ![pdf] = @ + 1]
    /\ ParseAdvance
    /\ UNCHANGED << data, web, flaky, fstate, tstate, values, pdf_bytes,
                    gets, ocrRows, ocrFailed >>

\* byt is not None and fitz.open raises: the except clause prints and goes on.
GetPDFText_ReadError ==
    /\ pc = "parse"
    /\ Result(parseIdx) # None
    /\ ~Result(parseIdx)[1].parse
    /\ ParseAdvance
    /\ UNCHANGED << data, web, flaky, fstate, pdfData, tstate, values,
                    pdf_bytes, gets, extracts, ocrRows, ocrFailed >>

\* GetPDFText_SkipNone leaving the loop over the results of the chunk.
GetPDFText_SkipNone_Break ==
    /\ pc = "parse"
    /\ Result(parseIdx) = None
    /\ pc' = "chunks"
    /\ chunkLo' = chunkLo + ChunkSize
    /\ UNCHANGED << data, web, flaky, fstate, parseIdx, pdfData, tstate,
                    values, pdf_bytes, gets, extracts, ocrRows, ocrFailed >>

\* byt is None: nothing is stored for the entry.
GetPDFText_SkipNone ==
    /\ pc = "parse"
    /\ Result(parseIdx) = None
    /\ ParseAdvance
    /\ UNCHANGED << data, web, flaky, fstate, pdfData, tstate, values,
                    pdf_bytes, gets, extracts, ocrRows, ocrFailed >>

\* no chunk is left: return pdfData, and main calls PN_Validation_New.
GetPDFText_Return ==
    /\ pc = "chunks"
    /\ chunkLo > Len(data)
    /\ pc' = "validate"
    /\ UNCHANGED << data, web, flaky, chunkLo, fstate, parseIdx, pdfData,
                    tstate, values, pdf_bytes, gets, extracts, ocrRows,
                    ocrFailed >>

(***************************************************************************)
(* PN_Validation_New, SET_DESC and ocr_text_from_pdf                       *)
(***************************************************************************)
\* the three columns are set to None and executor.map submits one SET_DESC
\* task for each index; the iterator it returns is never read.
PN_Validation_New_Call ==
    /\ pc = "validate"
    /\ data' = [i \in Rows |-> [data[i] EXCEPT !.STATUS = "None",
                                               !.EQUIVALENT = None,
                                               !.SIMILARS = None]]
    /\ tstate' = [i \in Rows |-> "queued"]
    /\ pc' = "join"
    /\ UNCHANGED << web, flaky, chunkLo, fstate, parseIdx, pdfData, values,
                    pdf_bytes, gets, extracts, ocrRows, ocrFailed >>

\* Checked with the search starting at the position the row index gives.
Checked_FromIndex(i, text) ==
    LET part == data[i].MPN
        at == SearchFrom(part, text, i)
        semi_regex == SemiRegex(part, text)
        dlb_match == GetCloseMatches(part, Split(text))
    IN  IF at # 0
        THEN [data EXCEPT
                 ![i].STATUS = "Exact",
                 ![i].EQUIVALENT = Some(Group0(part, text, at)),
                 ![i].SIMILARS = IF semi_regex # {} THEN Some(semi_regex) ELSE @]
        ELSE IF dlb_match # << >>
        THEN [data EXCEPT
                 ![i].STATUS = "Includes or Missed Suffixes",
                 ![i].EQUIVALENT = Some(dlb_match[1])]
        ELSE [data EXCEPT ![i].STATUS = "Not Found"]

\* the checks of lines 85-103 on the text resolved for row i: the table after
\* the cells of the row are written.
Checked(i, text) ==
    LET part == data[i].MPN
        at == SearchFrom(part, text, 1)
        semi_regex == SemiRegex(part, text)
        dlb_match == GetCloseMatches(part, Split(text))
    IN  IF at # 0
        THEN [data EXCEPT
                 ![i].STATUS = "Exact",
                 ![i].EQUIVALENT = Some(Group0(part, text, at)),
                 ![i].SIMILARS = IF semi_regex # {} THEN Some(semi_regex) ELSE @]
        ELSE IF dlb_match # << >>
        THEN [data EXCEPT
                 ![i].STATUS = "Includes or Missed Suffixes",
                 ![i].EQUIVALENT = Some(dlb_match[1])]
        ELSE [data EXCEPT ![i].STATUS = "Not Found"]

\* a worker may take task i: it is the oldest queued task and a worker is free.
CanTake(i) ==
    /\ pc = "join"
    /\ tstate[i] = "queued"
    /\ \A j \in Rows : j < i => tstate[j] # "queued"
    /\ Cardinality(TaskRunning) < MaxWorkers

\* SET_DESC_Broken writing 'Not Found'.
SET_DESC_Broken_NotFound(i) ==
    /\ CanTake(i)
    /\ data[i].PDF \notin DOMAIN pdfData
    /\ data' = [data EXCEPT ![i].STATUS = "Not Found"]
    /\ tstate' = [tstate EXCEPT ![i] = "done"]
    /\ UNCHANGED << web, flaky, pc, chunkLo, fstate, parseIdx, pdfData,
                    values, pdf_bytes, gets, extracts, ocrRows, ocrFailed >>

\* pdf_url not in pdf_data: the status is set and the task returns.
SET_DESC_Broken(i) ==
    /\ CanTake(i)
    /\ data[i].PDF \notin DOMAIN pdfData
    /\ data' = [data EXCEPT ![i].STATUS = "May be Broken"]
    /\ tstate' = [tstate EXCEPT ![i] = "done"]
    /\ UNCHANGED << web, flaky, pc, chunkLo, fstate, parseIdx, pdfData,
                    values, pdf_bytes, gets, extracts, ocrRows, ocrFailed >>

\* UseOcr with a strict comparison.
UseOcr_Strict(text) == Len(text) < OcrThreshold

\* len(values) <= 100
UseOcr(text) == Len(text) <= OcrThreshold

\* SET_DESC_Digital with pdf_url read from the first row when that location
\* is in the map.
SET_DESC_Digital_FirstRow(i) ==
    /\ CanTake(i)
    /\ data[i].PDF \in DOMAIN pdfData
    /\ ~UseOcr(pdfData[data[i].PDF])
    /\ LET pdf_url == IF data[1].PDF \in DOMAIN pdfData
                       THEN data[1].PDF ELSE data[i].PDF
       IN  /\ values' = Put(values, i, pdfData[pdf_url])
           /\ data' = Checked(i, pdfData[pdf_url])
    /\ tstate' = [tstate EXCEPT ![i] = "done"]
    /\ UNCHANGED << web, flaky, pc, chunkLo, fstate, parseIdx, pdfData,
                    pdf_bytes, gets, extracts, ocrRows, ocrFailed >>

\* values = pdf_data[pdf_url] is long enough: the checks run on it.
SET_DESC_Digital(i) ==
    /\ CanTake(i)
    /\ data[i].PDF \in DOMAIN pdfData
    /\ ~UseOcr(pdfData[data[i].PDF])
    /\ values' = Put(values, i, pdfData[data[i].PDF])
    /\ data' = Checked(i, pdfData[data[i].PDF])
    /\ tstate' = [tstate EXCEPT ![i] = "done"]
    /\ UNCHANGED << web, flaky, pc, chunkLo, fstate, parseIdx, pdfData,
                    pdf_bytes, gets, extracts, ocrRows, ocrFailed >>

\* values = pdf_data[pdf_url] is short: the task goes on to fetch the bytes.
SET_DESC_Short(i) ==
    /\ CanTake(i)
    /\ data[i].PDF \in DOMAIN pdfData
    /\ UseOcr(pdfData[data[i].PDF])
    /\ values' = Put(values, i, pdfData[data[i].PDF])
    /\ tstate' = [tstate EXCEPT ![i] = "l80"]
    /\ ocrRows' = ocrRows \cup {i}
    /\ UNCHANGED << data, web, flaky, pc, chunkLo, fstate, parseIdx,
                    pdfData, pdf_bytes, gets, extracts, ocrFailed >>

\* requests.get(pdf_url).content returns the document.
SET_DESC_GetOk(i) ==
    /\ tstate[i] = "l80"
    /\ gets' = [gets EXCEPT ![data[i].PDF] = @ + 1]
    /\ pdf_bytes' = Put(pdf_bytes, i, web[data[i].PDF])
    /\ tstate' = [tstate EXCEPT ![i] = "l50"]
    /\ UNCHANGED << data, web, flaky, pc, chunkLo, fstate, parseIdx,
                    pdfData, values, extracts, ocrRows, ocrFailed >>

\* requests.get(pdf_url).content is the body of an error response: the status
\* is not looked at.
SET_DESC_GetErrorBody(i) ==
    /\ tstate[i] = "l80"
    /\ data[i].PDF \in flaky
    /\ gets' = [gets EXCEPT ![data[i].PDF] = @ + 1]
    /\ pdf_bytes' = Put(pdf_bytes, i, Garbage)
    /\ tstate' = [tstate EXCEPT ![i] = "l50"]
    /\ UNCHANGED << data, web, flaky, pc, chunkLo, fstate, parseIdx,
                    pdfData, values, extracts, ocrRows, ocrFailed >>

\* requests.get raises (a transport error): nothing catches it in SET_DESC,
\* the task ends and the exception stays in its future.
SET_DESC_GetRaises(i) ==
    /\ tstate[i] = "l80"
    /\ data[i].PDF \in flaky
    /\ gets' = [gets EXCEPT ![data[i].PDF] = @ + 1]
    /\ tstate' = [tstate EXCEPT ![i] = "raised"]
    /\ ocrFailed' = ocrFailed \cup {i}
    /\ UNCHANGED << data, web, flaky, pc, chunkLo, fstate, parseIdx,
                    pdfData, values, pdf_bytes, extracts, ocrRows >>

\* easyocr.Reader(['en']) raises: it stands before the try, so the exception
\* leaves ocr_text_from_pdf and SET_DESC.
Ocr_ReaderRaises(i) ==
    /\ tstate[i] = "l50"
    /\ tstate' = [tstate EXCEPT ![i] = "raised"]
    /\ ocrFailed' = ocrFailed \cup {i}
    /\ UNCHANGED << data, web, flaky, pc, chunkLo, fstate, parseIdx, pdfData,
                    values, pdf_bytes, gets, extracts, ocrRows >>

\* Ocr_Text without the assignment of the OCR output to values.
Ocr_Text_KeepDigital(i) ==
    /\ tstate[i] = "l50"
    /\ pdf_bytes[i].parse
    /\ data' = Checked(i, values[i])
    /\ extracts' = [extracts EXCEPT ![data[i].PDF] = @ + 1]
    /\ tstate' = [tstate EXCEPT ![i] = "done"]
    /\ UNCHANGED << web, flaky, pc, chunkLo, fstate, parseIdx, pdfData,
                    values, pdf_bytes, gets, ocrRows, ocrFailed >>

\* the reader is constructed, the pages are rendered and read: values =
\* full_text.strip(), and the checks run on it.
Ocr_Text(i) ==
    /\ tstate[i] = "l50"
    /\ pdf_bytes[i].parse
    /\ values' = Put(values, i, OcrText(pdf_bytes[i]))
    /\ data' = Checked(i, OcrText(pdf_bytes[i]))
    /\ extracts' = [extracts EXCEPT ![data[i].PDF] = @ + 1]
    /\ tstate' = [tstate EXCEPT ![i] = "done"]
    /\ UNCHANGED << web, flaky, pc, chunkLo, fstate, parseIdx, pdfData,
                    pdf_bytes, gets, ocrRows, ocrFailed >>

\* fitz.open raises on bytes that are no PDF: the except clause returns "",
\* and the checks run on it.
Ocr_OpenError(i) ==
    /\ tstate[i] = "l50"
    /\ ~pdf_bytes[i].parse
    /\ values' = Put(values, i, << >>)
    /\ data' = Checked(i, << >>)
    /\ tstate' = [tstate EXCEPT ![i] = "done"]
    /\ ocrFailed' = ocrFailed \cup {i}
    /\ UNCHANGED << web, flaky, pc, chunkLo, fstate, parseIdx, pdfData,
                    pdf_bytes, gets, extracts, ocrRows >>

\* rendering or readtext raises: the except clause returns "", and the checks
\* run on it.
Ocr_EngineError(i) ==
    /\ tstate[i] = "l50"
    /\ pdf_bytes[i].parse
    /\ values' = Put(values, i, << >>)
    /\ data' = Checked(i, << >>)
    /\ tstate' = [tstate EXCEPT ![i] = "done"]
    /\ ocrFailed' = ocrFailed \cup {i}
    /\ UNCHANGED << web, flaky, pc, chunkLo, fstate, parseIdx, pdfData,
                    pdf_bytes, gets, extracts, ocrRows >>

\* PN_Validation_New_Return without the wait at the end of the with block.
PN_Validation_New_Return_NoWait ==
    /\ pc = "join"
    /\ \A i \in Rows : tstate[i] # "queued"
    /\ pc' = "returned"
    /\ UNCHANGED << data, web, flaky, chunkLo, fstate, parseIdx, pdfData,
                    tstate, values, pdf_bytes, gets, extracts, ocrRows,
                    ocrFailed >>

\* the with block ends once every task has returned or raised: return data.
PN_Validation_New_Return ==
    /\ pc = "join"
    /\ \A i \in Rows : tstate[i] \in {"done", "raised"}
    /\ pc' = "returned"
    /\ UNCHANGED << data, web, flaky, chunkLo, fstate, parseIdx, pdfData,
                    tstate, values, pdf_bytes, gets, extracts, ocrRows,
                    ocrFailed >>

\* the tasks an action can apply to, by their state
FetchIn(st) == { k \in Chunk : fstate[k] = st }

TaskIn(st) == { i \in Rows : tstate[i] = st }

Next ==
    \/ GetPDFText_NextChunk
    \/ \E k \in FetchIn("queued") : GetPDFResponse_Call(k)
    \/ \E k \in FetchIn("running") : GetPDFResponse_Ok(k)
    \/ \E k \in FetchIn("running") : GetPDFResponse_Error(k)
    \/ GetPDFText_Collect
    \/ GetPDFText_Read
    \/ GetPDFText_ReadError
    \/ GetPDFText_SkipNone
    \/ GetPDFText_Return
    \/ PN_Validation_New_Call
    \/ \E i \in TaskIn("queued") : SET_DESC_Broken(i)
    \/ \E i \in TaskIn("queued") : SET_DESC_Digital(i)
    \/ \E i \in TaskIn("queued") : SET_DESC_Short(i)
    \/ \E i \in TaskIn("l80") : SET_DESC_GetOk(i)
    \/ \E i \in TaskIn("l80") : SET_DESC_GetErrorBody(i)
    \/ \E i \in TaskIn("l80") : SET_DESC_GetRaises(i)
    \/ \E i \in TaskIn("l50") : Ocr_ReaderRaises(i)
    \/ \E i \in TaskIn("l50") : Ocr_Text(i)
    \/ \E i \in TaskIn("l50") : Ocr_OpenError(i)
    \/ \E i \in TaskIn("l50") : Ocr_EngineError(i)
    \/ PN_Validation_New_Return

Spec == Init /\ [][Next]_vars

SpecMatch == InitMatch /\ [][Next]_vars

SpecBatch == InitBatch /\ [][Next]_vars

\* the steps of the thread that runs main
MainSteps ==
    \/ GetPDFText_NextChunk
    \/ GetPDFText_Collect
    \/ GetPDFText_Read
    \/ GetPDFText_ReadError
    \/ GetPDFText_SkipNone
    \/ GetPDFText_Return
    \/ PN_Validation_New_Call
    \/ PN_Validation_New_Return

\* the steps of the workers on GetPDFResponse tasks
FetchSteps ==
    \/ \E k \in FetchIn("queued") : GetPDFResponse_Call(k)
    \/ \E k \in FetchIn("running") : GetPDFResponse_Ok(k)
    \/ \E k \in FetchIn("running") : GetPDFResponse_Error(k)

\* the steps of the workers on SET_DESC tasks before the text is resolved
TaskSteps ==
    \/ \E i \in TaskIn("queued") : SET_DESC_Broken(i)
    \/ \E i \in TaskIn("queued") : SET_DESC_Short(i)
    \/ \E i \in TaskIn("l80") : SET_DESC_GetOk(i)
    \/ \E i \in TaskIn("l80") : SET_DESC_GetErrorBody(i)
    \/ \E i \in TaskIn("l80") : SET_DESC_GetRaises(i)
    \/ \E i \in TaskIn("l50") : Ocr_ReaderRaises(i)

\* a SET_DESC task resolves its text, runs the checks and returns: the
\* guards of SET_DESC_Digital, Ocr_Text, Ocr_OpenError and Ocr_EngineError
\* and what they do to tstate.
TaskEnds ==
    \E i \in Rows :
        /\ \/ /\ CanTake(i)
              /\ data[i].PDF \in DOMAIN pdfData
              /\ ~UseOcr(pdfData[data[i].PDF])
           \/ tstate[i] = "l50"
        /\ tstate' = [tstate EXCEPT ![i] = "done"]

\* every call that was issued returns or raises, and a thread that can take
\* a step is scheduled.
LiveSpec ==
    /\ Init /\ [][Next]_vars
    /\ WF_vars(MainSteps)
    /\ WF_vars(FetchSteps)
    /\ WF_vars(TaskSteps)
    /\ WF_tstate(TaskEnds)

(***************************************************************************)
(* Properties.                                                             *)
(***************************************************************************)
Labels == { "Exact", "Includes or Missed Suffixes", "Not Found", "May be Broken" }

\* the row's task has ended normally
Done(i) == tstate[i] = "done"

\* the row's location has an entry in the extraction map
InMap(i) == data[i].PDF \in DOMAIN pdfData

\* the row's task ended after the checks of lines 85-103 on values[i], the
\* text resolved for the row
Matched(i) == Done(i) /\ InMap(i)

\* part occurs in text at position p, compared case-insensitively
OccursAt(part, text, p) ==
    /\ p + Len(part) - 1 <= Len(text)
    /\ \A k \in 1..Len(part) : Lower(text[p + k - 1]) = Lower(part[k])

Occurs(part, text) == \E p \in 1..(Len(text) + 1) : OccursAt(part, text, p)

\* the similarity of token k of the text to the identifier
Score(part, text, k) == Ratio(Split(text)[k], part)

\* the tokens of the text whose similarity reaches the cutoff 0.65
CloseTokens(part, text) ==
    { k \in 1..Len(Split(text)) : RatioGE(Score(part, text, k), 65, 100) }

\* the close tokens no other token scores higher than
TopTokens(part, text) ==
    { k \in CloseTokens(part, text) :
        \A j \in CloseTokens(part, text) :
            ~RatioLess(Score(part, text, k), Score(part, text, j)) }

\* C1: after the run every row has one of the four labels as its status,
\* whatever failed during the run.
C1_EveryRowLabelled ==
    pc = "returned" => \A i \in Rows : data[i].STATUS \in Labels

\* C2: a row whose resolved text contains the identifier, compared
\* case-insensitively, has status Exact and as equivalent the characters of
\* the text at an occurrence, also when a token is close enough for the
\* fuzzy check.
C2_ExactMatch ==
    \A i \in Rows :
        Matched(i) /\ Occurs(data[i].MPN, values[i]) =>
            /\ data[i].STATUS = "Exact"
            /\ data[i].EQUIVALENT # None
            /\ \E p \in 1..Len(values[i]) :
                  /\ OccursAt(data[i].MPN, values[i], p)
                  /\ data[i].EQUIVALENT[1]
                        = Slice(values[i], p, p + Len(data[i].MPN) - 1)

\* a row is Exact with an equivalent in another casing than the identifier,
\* while a token of the text passes the fuzzy check.
C2_Witness ==
    \E i \in Rows :
        /\ Matched(i)
        /\ data[i].STATUS = "Exact"
        /\ data[i].EQUIVALENT # Some(data[i].MPN)
        /\ CloseTokens(data[i].MPN, values[i]) # {}

\* C3 as stated: with no verbatim match and a token of similarity >= 0.65,
\* the status is 'Includes or Missed Suffixes' and the equivalent is the
\* highest-scoring token, the first in scan order among equal scores.
C3_FirstOccurrence ==
    \A i \in Rows :
        Matched(i) /\ ~Occurs(data[i].MPN, values[i])
                   /\ CloseTokens(data[i].MPN, values[i]) # {} =>
            /\ data[i].STATUS = "Includes or Missed Suffixes"
            /\ data[i].EQUIVALENT
                  = Some(Split(values[i])[Least(TopTokens(data[i].MPN, values[i]))])

\* C3 amended: with no verbatim match and a token of similarity >= 0.65, the
\* status is 'Includes or Missed Suffixes' and the equivalent is a
\* highest-scoring token, the greatest in string order among equal scores.
C3_HighestScore ==
    \A i \in Rows :
        Matched(i) /\ ~Occurs(data[i].MPN, values[i])
                   /\ CloseTokens(data[i].MPN, values[i]) # {} =>
            /\ data[i].STATUS = "Includes or Missed Suffixes"
            /\ \E k \in TopTokens(data[i].MPN, values[i]) :
                  /\ data[i].EQUIVALENT = Some(Split(values[i])[k])
                  /\ \A j \in TopTokens(data[i].MPN, values[i]) :
                        ~StrLess(Split(values[i])[k], Split(values[i])[j])

\* a row got a fuzzy match from a text where two different tokens share the
\* highest score.
C3_Witness ==
    \E i \in Rows :
        /\ Matched(i)
        /\ data[i].STATUS = "Includes or Missed Suffixes"
        /\ \E j, k \in TopTokens(data[i].MPN, values[i]) :
              Split(values[i])[j] # Split(values[i])[k]

\* C4: a row whose resolved text has neither a verbatim occurrence nor a
\* close token is 'Not Found' with equivalent and similars unset; equivalent
\* and similars are unset for 'Not Found' and 'May be Broken', and similars
\* is unset for 'Includes or Missed Suffixes'.
C4_NotFound ==
    \A i \in Rows :
        /\ Matched(i) /\ ~Occurs(data[i].MPN, values[i])
                      /\ CloseTokens(data[i].MPN, values[i]) = {} =>
              /\ data[i].STATUS = "Not Found"
              /\ data[i].EQUIVALENT = None
              /\ data[i].SIMILARS = None
        /\ data[i].STATUS \in { "Not Found", "May be Broken" } =>
              data[i].EQUIVALENT = None /\ data[i].SIMILARS = None
        /\ data[i].STATUS = "Includes or Missed Suffixes" =>
              data[i].SIMILARS = None

\* a row is 'Not Found' on a text that has a token sharing characters with
\* the identifier, below the cutoff.
C4_Witness ==
    \E i \in Rows :
        /\ Matched(i)
        /\ data[i].STATUS = "Not Found"
        /\ \E k \in 1..Len(Split(values[i])) :
              Score(data[i].MPN, values[i], k)[1] > 0

\* C5: a row whose location has no entry in the extraction map is
\* 'May be Broken' with equivalent and similars unset once its task has
\* run, and after the run this holds of every such row.
C5_Unavailable ==
    \A i \in Rows :
        /\ pc \in { "join", "returned" } /\ ~InMap(i)
               /\ tstate[i] \notin { "idle", "queued" } =>
              /\ data[i].STATUS = "May be Broken"
              /\ data[i].EQUIVALENT = None
              /\ data[i].SIMILARS = None
        /\ pc = "returned" /\ ~InMap(i) => data[i].STATUS = "May be Broken"

\* the run ended with two rows of different identifiers on one location
\* that is not in the map, both 'May be Broken'.
C5_Witness ==
    /\ pc = "returned"
    /\ \E i, j \in Rows :
          /\ i # j
          /\ data[i].PDF = data[j].PDF
          /\ data[i].MPN # data[j].MPN
          /\ ~InMap(i)
          /\ data[i].STATUS = "May be Broken"
          /\ data[j].STATUS = "May be Broken"

\* GetPDFText has returned
Fetched == pc \in { "validate", "join", "returned" }

\* entry k of pdfs was fetched and read successfully
EntryOk(k) == fstate[k] = "ok" /\ web[data[k].PDF].parse

\* C6: GetPDFText returns after every entry's task has ended, whatever
\* failed; a location is in the returned map exactly if the fetch and the
\* parse of one of its entries succeeded, and then with its digital text.
C6_FailuresIsolated ==
    Fetched =>
        /\ \A k \in Rows : fstate[k] \in { "ok", "error" }
        /\ \A l \in Locs :
              l \in DOMAIN pdfData <=> \E k \in Rows : data[k].PDF = l /\ EntryOk(k)
        /\ \A l \in DOMAIN pdfData : pdfData[l] = DigitalText(web[l])

\* GetPDFText returned a map without the location of an entry of the first
\* chunk whose fetch failed, and with the location of another entry of that
\* chunk and of an entry of the next chunk, fetched and read successfully.
C6_Witness ==
    /\ Fetched
    /\ \E i, j, k \in Rows :
          /\ i <= ChunkSize /\ j <= ChunkSize /\ k > ChunkSize
          /\ fstate[j] = "error"
          /\ data[j].PDF \notin DOMAIN pdfData
          /\ EntryOk(i) /\ data[i].PDF \in DOMAIN pdfData
          /\ EntryOk(k) /\ data[k].PDF \in DOMAIN pdfData

\* C7: a row whose OCR step failed (fetching the bytes, constructing the
\* engine, rendering or recognition) ends as 'Not Found'.
C7_OcrFailureNotFound ==
    \A i \in ocrFailed :
        tstate[i] \in { "done", "raised" } => data[i].STATUS = "Not Found"

\* C8: the task of a row takes the OCR step exactly if the digital text of
\* the row's location has at most 100 characters; a location without an
\* entry in the map never does, and ocr_text_from_pdf runs only in that step.
C8_OcrTrigger ==
    \A i \in Rows :
        /\ i \in ocrRows => InMap(i) /\ Len(pdfData[data[i].PDF]) <= 100
        /\ tstate[i] \notin { "idle", "queued" } /\ InMap(i)
               /\ Len(pdfData[data[i].PDF]) <= 100 => i \in ocrRows
        /\ tstate[i] \in { "l80", "l50" } => i \in ocrRows
        /\ i \in ocrFailed => i \in ocrRows

\* one row took the OCR step on a digital text of exactly 100 characters,
\* another row ended without it on a digital text of 101 characters.
C8_Witness ==
    \E i, j \in Rows :
        /\ i \in ocrRows
        /\ Len(pdfData[data[i].PDF]) = 100
        /\ Done(j)
        /\ j \notin ocrRows
        /\ InMap(j)
        /\ Len(pdfData[data[j].PDF]) = 101

\* C9: on a digital text of at most 100 characters the checks run on what
\* ocr_text_from_pdf returned (the recognized text, or "" after a failure),
\* on a longer one on the digital text; Exact is decided on that text.
C9_ResolvedText ==
    \A i \in Rows :
        Matched(i) =>
            /\ Len(pdfData[data[i].PDF]) <= 100 =>
                  values[i] = IF i \in ocrFailed THEN << >>
                              ELSE OcrText(web[data[i].PDF])
            /\ Len(pdfData[data[i].PDF]) > 100 =>
                  values[i] = DigitalText(web[data[i].PDF])
            /\ data[i].STATUS = "Exact" <=> Occurs(data[i].MPN, values[i])

\* a row ended without Exact although the short digital text of its
\* location contains the identifier, the OCR output being non-empty.
C9_Witness ==
    \E i \in Rows :
        /\ Matched(i)
        /\ i \in ocrRows
        /\ i \notin ocrFailed
        /\ values[i] # << >>
        /\ Occurs(data[i].MPN, pdfData[data[i].PDF])
        /\ data[i].STATUS # "Exact"

\* C10: each location is requested at most once and its text is produced at
\* most once in a run.
C10_FetchedOnce ==
    \A l \in Locs : gets[l] <= 1 /\ extracts[l] <= 1

\* the row's task ended with an exception that nothing caught
Raised(i) == tstate[i] = "raised"

\* C11: the run completes; data is handed back only after every row task
\* has returned or raised; a task raises only on a failure of its own OCR
\* step, and every row whose task did not raise has its label, whatever
\* failed for other rows or documents.
C11_AlwaysCompletes ==
    /\ <>(pc = "returned")
    /\ [](pc = "returned" =>
            \A i \in Rows :
                /\ Done(i) \/ Raised(i)
                /\ Raised(i) => i \in ocrFailed
                /\ Done(i) => data[i].STATUS \in Labels)

\* the run ended after a fetch of GetPDFText failed and the task of one row
\* raised, with another row labelled.
C11_Witness ==
    /\ pc = "returned"
    /\ \E k \in Rows : fstate[k] = "error"
    /\ \E i, j \in Rows :
          /\ Raised(i)
          /\ Done(j)
          /\ data[j].STATUS \in Labels

\* what lines 85-103 make of an identifier and a text
OutcomeOf(part, text) ==
    LET first == Least({ p \in 1..(Len(text) + 1) : OccursAt(part, text, p) })
        similars == SemiRegex(part, text)
    IN  IF Occurs(part, text)
        THEN [STATUS |-> "Exact",
              EQUIVALENT |-> Some(Slice(text, first, first + Len(part) - 1)),
              SIMILARS |-> IF similars # {} THEN Some(similars) ELSE None]
        ELSE IF CloseTokens(part, text) # {}
        THEN [STATUS |-> "Includes or Missed Suffixes",
              EQUIVALENT |-> Some(GetCloseMatches(part, Split(text))[1]),
              SIMILARS |-> None]
        ELSE [STATUS |-> "Not Found", EQUIVALENT |-> None, SIMILARS |-> None]

\* the outcome stored at row i
Stored(i) ==
    [STATUS |-> data[i].STATUS, EQUIVALENT |-> data[i].EQUIVALENT,
     SIMILARS |-> data[i].SIMILARS]

\* the texts the location of row i can resolve to: its digital text, what
\* OCR reads from its document, or "" after an OCR failure
OwnTexts(i) ==
    { pdfData[data[i].PDF], OcrText(web[data[i].PDF]), << >> }

\* C12: the table keeps its rows, identifiers and locations in input order,
\* and the outcome stored at index i is the one of row i's own identifier on
\* a text of row i's own location, or 'May be Broken' when the location has
\* no entry in the map, under every interleaving of the workers.
C12_OwnRow ==
    /\ [][/\ Len(data') = Len(data)
          /\ \A i \in Rows : /\ data'[i].MPN = data[i].MPN
                              /\ data'[i].PDF = data[i].PDF]_vars
    /\ [](\A i \in Rows :
             Done(i) =>
                IF InMap(i)
                THEN /\ values[i] \in OwnTexts(i)
                     /\ Stored(i) = OutcomeOf(data[i].MPN, values[i])
                ELSE Stored(i) = [STATUS |-> "May be Broken",
                                  EQUIVALENT |-> None, SIMILARS |-> None])

\* the run ended with two rows on one location whose identifiers give
\* different outcomes on the same text, the later row's task having ended
\* with the earlier row's task already done.
C12_Witness ==
    /\ pc = "returned"
    /\ \E i, j \in Rows :
          /\ i < j
          /\ Matched(i) /\ Matched(j)
          /\ data[i].PDF = data[j].PDF
          /\ values[i] = values[j]
          /\ Stored(i) # Stored(j)
          /\ Stored(i) = OutcomeOf(data[i].MPN, values[i])
          /\ Stored(j) = OutcomeOf(data[j].MPN, values[j])

MatchStarted == \E i \in Rows : tstate[i] \notin { "idle", "queued" }

\* C14: once a row's match task has started, no request is issued and no
\* text is extracted (by OCR or otherwise).
C14_PhasesSequential ==
    [][MatchStarted => gets' = gets /\ extracts' = extracts]_vars

\* the tasks that are in ocr_text_from_pdf constructing easyocr.Reader
Constructing == TaskIn("l50")

\* the tasks whose call of ocr_text_from_pdf constructed a reader: those that
\* got past line 50
Constructed == { i \in ocrRows : Done(i) }

\* C15: no two constructions of the recognition engine are in progress at
\* the same time, and at most one engine is constructed in a run.
C15_EngineGuarded ==
    /\ Cardinality(Constructing) <= 1
    /\ Cardinality(Constructed) <= 1

\* C16: the table is written only by the thread of main, or by a worker
\* that writes the cells of its own row while no other worker is in its
\* task.
C16_PerRowSlots ==
    [][pc = "join" /\ data' # data =>
          \E i \in Rows :
              /\ tstate'[i] # tstate[i]
              /\ \A j \in Rows \ {i} : data'[j] = data[j]
              /\ \A j \in Rows \ {i} : j \notin TaskRunning]_vars

\* the batch entry k of pdfs belongs to, counted from 0
ChunkOf(k) == (k - 1) \div ChunkSize

\* the GetPDFResponse tasks that were submitted and have not ended
InFlight == { k \in Rows : fstate[k] \in { "queued", "running" } }

\* C17: the entries are taken in consecutive batches of at most 100 in input
\* order; no fetch of a batch is submitted before every fetch of the batches
\* before it has ended; at most 100 fetches are in flight; and the map that
\* is returned depends only on which entries were fetched and read, not on
\* the order in which the fetches ended.
C17_BatchesDrain ==
    /\ pc \in { "map", "parse" } =>
          /\ Chunk = { k \in Rows : ChunkOf(k) = ChunkOf(chunkLo) }
          /\ Cardinality(Chunk) <= 100
    /\ \A j, k \in Rows :
          ChunkOf(j) < ChunkOf(k) /\ fstate[k] # "idle" =>
              fstate[j] \in { "ok", "error" }
    /\ Cardinality(InFlight) <= 100
    /\ Fetched =>
          pdfData = [l \in { data[k].PDF : k \in { n \in Rows : EntryOk(n) } } |->
                        DigitalText(web[l])]

\* the fetch of the entry of the second batch is running, after the fetches
\* of the last two entries of the first batch ended, one failed and one not.
C17_Witness ==
    /\ Len(data) > ChunkSize
    /\ fstate[ChunkSize + 1] = "running"
    /\ fstate[ChunkSize - 1] = "error"
    /\ fstate[ChunkSize] = "ok"

\* C18: after the run, two rows with the same identifier and the same
\* location have the same status, equivalent and similars.
C18_SameRequestSameOutcome ==
    pc = "returned" =>
        \A i, j \in Rows :
            data[i].MPN = data[j].MPN /\ data[i].PDF = data[j].PDF =>
                Stored(i) = Stored(j)

====
